---- MODULE Spec2Model ----
(***************************************************************************)
(* Interaction session of the calligraphy tracing canvas                   *)
(* (frontend/src/modules/calligraphy/TracingCanvas.tsx) together with the  *)
(* evaluators of templateLoader.ts.                                        *)
(*                                                                         *)
(* Spec is the canvas session; it keeps an evaluation as the pair of paths *)
(* it was computed from.  SpecFrames is the session together with the      *)
(* display frames of useAnimationFrame and the unmount of the component.   *)
(* SpecStroke, SpecDrawing, SpecResample and SpecSmooth are direct calls   *)
(* of evaluateStroke, evaluateDrawing, resamplePath and smoothStroke,      *)
(* whose results are computed in exact arithmetic; SpecScaled calls        *)
(* evaluateStroke on arguments and on their multiples, SpecRepeat calls    *)
(* the evaluators repeatedly.  SpecLoader is direct calls of loadManifest   *)
(* and loadTemplate with the ends of their fetches; SpecPractice is the     *)
(* selection of letters in CalligraphyPractice.tsx with the template loads *)
(* it starts; SpecPointerEvents is the pointer-event branch of the hook     *)
(* usePointerEvents as App uses it.                                         *)
(*                                                                         *)
(* One action is one event handler (pointer event, undo, reset, template   *)
(* replacement) followed by the React renders and effects it triggers, up  *)
(* to the point where no state update is pending.                          *)
(*                                                                         *)
(* Representation.  A Point is the pair <<x, y>> (the pressure field is    *)
(* carried by the code but read nowhere).  A stroke is a non-empty         *)
(* sequence of points.  A JavaScript array slot that was never assigned is *)
(* `hole`, a slot holding the value undefined is `undefinedEntry`; the     *)
(* code never stores an empty array in the stroke list, so neither marker  *)
(* collides with a stroke.  null is `NoStroke` for activeStroke,           *)
(* `NoPointer` for pointerState.current, `NoTemplate` for the template     *)
(* prop and `NullSummary` for an EvaluationSummary.                        *)
(***************************************************************************)
EXTENDS Integers, Sequences, FiniteSets, TLC

\* ---- bounds of the model ------------------------------------------------
\* the number of calls made of each loader of templateLoader.ts
MaxLoads == 4
\* the number of pointer events handled by usePointerEvents
MaxEvents == 5

MaxStrokes == 2
MaxPoints == 3

\* ---- inputs of the environment -------------------------------------------
PointerIds == {1, 2}
ClientPoints == {<<10, 10>>, <<11, 10>>}
TemplateIds == {"A", "B"}

NoTemplate == "null"
NoStroke == <<>>
NoPointer == [id |-> -1, strokeIndex |-> -1]
hole == <<>>
undefinedEntry == << <<>> >>

\* props passed by CalligraphyPractice
width == 640
height == 640

\* canvas.getBoundingClientRect(): the canvas is shown at half its pixel size
boundingRect == [left |-> 10, top |-> 10, width |-> 320, height |-> 320]

\* the LetterTemplate values handed over by the loader (unscaled JSON data)
LetterTemplate(t) ==
  IF t = "A"
  THEN [width |-> 320, height |-> 320,
        strokes |-> << <<<<0, 0>>, <<1, 0>>>> >>]
  ELSE [width |-> 640, height |-> 640,
        strokes |-> << <<<<0, 0>>, <<2, 0>>>>, <<<<0, 2>>, <<2, 2>>>> >>]

Min(a, b) == IF a < b THEN a ELSE b

\* ---- state ----------------------------------------------------------------
VARIABLES template, strokes, activeStroke, strokeEvaluations, evaluation,
          pointerState, delivered, evaluateStrokeCalls, mounted, arrived, lastOp,
          call, frame, drawCalls, loader, practice, pointerEvents

vars == <<template, strokes, activeStroke, strokeEvaluations, evaluation,
          pointerState, delivered, evaluateStrokeCalls, mounted, arrived, lastOp,
          call, frame, drawCalls, loader, practice, pointerEvents>>

\* template       the template prop
\* strokes, activeStroke, strokeEvaluations, evaluation
\*                the useState cells of the component
\* pointerState   pointerState.current
\* delivered      the argument of the latest onEvaluationChange call (the
\*                evaluation state of CalligraphyPractice)
\* evaluateStrokeCalls
\*                the evaluateStroke calls made by the evaluation effect and
\*                by evaluateDrawing during the latest handler that did not
\*                return early
\* mounted        FALSE once an effect has thrown (React unmounts the tree)
\* arrived        history: the canvas points of the pointer-down and of the
\*                accepted pointer-move events of the captured pointer
\* lastOp         history: the latest handler that did not return early
\* call           a direct call of an evaluator of templateLoader.ts: its
\*                arguments and, once it has returned, its result; NoCall
\*                throughout a canvas session
\* frame          the animation-frame requests of useAnimationFrame:
\*                frame.current is "null", "live" (the id of a pending
\*                request) or "stale" (the id of a request that has run), and
\*                pending is the number of requests the browser holds
\* drawCalls      history: the number of draw() calls made during the
\*                latest step
\* loader         the module state of templateLoader.ts (cache,
\*                manifestPromise), the promises its loaders have returned
\*                and, as history, the fetches they have issued
\* practice       the useState cells of CalligraphyPractice, the template
\*                loads its effect has started, and, as history, the reset()
\*                calls it has made on the canvas; NoPractice while the
\*                component is not part of the specification
\* pointerEvents  the hook usePointerEvents of App: the pointerId of its
\*                effect, its state cell isActive, the pointers that are down
\*                and, as history, the callbacks it has delivered; NoHook
\*                while the hook is not part of the specification

NoCall == [fn |-> "none"]

\* templateLoader.ts after the module has been evaluated: const cache = new
\* Map(), let manifestPromise = null; no loader has been called.  The promise
\* in manifestPromise is recorded as the number of the manifest fetch it
\* belongs to, null as 0.
ModuleLoaded ==
  [cache |-> {}, manifestPromise |-> 0, manifestFetches |-> <<>>,
   manifestCalls |-> <<>>, templateFetches |-> <<>>, templateCalls |-> <<>>]

NoPractice == [present |-> FALSE]

NoHook == [present |-> FALSE]

\* ---- templateLoader.ts ---------------------------------------------------
scaleTemplateStroke(path, tw, th) ==
  [k \in 1..Len(path) |-> <<(path[k][1] * width) \div tw, (path[k][2] * height) \div th>>]

scaleTemplate(t) ==
  LET tpl == LetterTemplate(t)
  IN [width |-> width, height |-> height,
      strokes |-> [i \in 1..Len(tpl.strokes) |->
                     scaleTemplateStroke(tpl.strokes[i], tpl.width, tpl.height)]]

\* catmullRomSpline(points, tension = 0.5, segments = 16).  The blending
\* weights q0..q3 at t = j/segments are Q0..Q3 divided by SplineUnit, so the
\* points returned are exact in units of 1/SplineUnit pixel.
segments == 16
SplineUnit == 2 * segments * segments * segments

Q0(j) == 0 - j*j*j + 2*segments*j*j - segments*segments*j
Q1(j) == 3*j*j*j - 5*segments*j*j + SplineUnit
Q2(j) == 0 - 3*j*j*j + 4*segments*j*j + segments*segments*j
Q3(j) == j*j*j - segments*j*j

\* variant: the spline runs over the stroke points alone
ControlPoints_bare(points) == points

\* pts = [points[0], ...points, points[points.length - 1]]
ControlPoints(points) == <<points[1]>> \o points \o <<points[Len(points)]>>

\* a point in units of 1/SplineUnit pixel
ToSplineUnit(point) == <<point[1] * SplineUnit, point[2] * SplineUnit>>

catmullRomSpline(points) ==
  IF Len(points) < 2
  THEN [k \in 1..Len(points) |-> ToSplineUnit(points[k])]
  ELSE LET pts == ControlPoints(points)
           \* the outer loop runs for i < pts.length - 3, the inner one
           \* pushes `segments` points
           pushed == IF Len(pts) > 3 THEN segments * (Len(pts) - 3) ELSE 0
           at(i, j, c) == Q0(j) * pts[i][c] + Q1(j) * pts[i+1][c]
                          + Q2(j) * pts[i+2][c] + Q3(j) * pts[i+3][c]
       IN [k \in 1..(pushed + 1) |->
             IF k = pushed + 1
             THEN ToSplineUnit(points[Len(points)])
             ELSE LET i == ((k - 1) \div segments) + 1
                      j == (k - 1) % segments
                  IN <<at(i, j, 1), at(i, j, 2)>>]

smoothStroke(stroke) == catmullRomSpline(stroke)

\* smoothStroke(stroke).length: a stroke of fewer than 2 points is returned
\* as it is, n >= 2 points give segments * (n - 1) + 1 points
SmoothedLength(stroke) ==
  IF Len(stroke) < 2 THEN Len(stroke) ELSE segments * (Len(stroke) - 1) + 1

\* StrokeEvaluation.  The sentinel is the value returned for an unscoreable
\* pair; a scored pair is kept as the pair it was computed from: the stroke
\* whose smoothing is evaluated and the reference path.
SentinelEvaluation == [scored |-> FALSE, stroke |-> <<>>, reference |-> <<>>]

evaluateStroke(stroke, reference) ==
  IF SmoothedLength(stroke) < 2 \/ Len(reference) = 0
  THEN SentinelEvaluation
  ELSE [scored |-> TRUE, stroke |-> stroke, reference |-> reference]

\* EvaluationSummary.  NullSummary is null, PromptSummary the zero summary
\* with the prompt-to-start message; otherwise the summary is kept as the
\* per-pair evaluations it averages.
NullSummary == [present |-> FALSE, prompt |-> FALSE, pairs |-> <<>>]
PromptSummary == [present |-> TRUE, prompt |-> TRUE, pairs |-> <<>>]

evaluateDrawing(strokeList, templateStrokes) ==
  IF Len(strokeList) = 0 \/ Len(templateStrokes) = 0
  THEN PromptSummary
  ELSE LET minStrokeCount == Min(Len(strokeList), Len(templateStrokes))
       IN [present |-> TRUE, prompt |-> FALSE,
           pairs |-> [i \in 1..minStrokeCount |->
                        evaluateStroke(strokeList[i], templateStrokes[i])]]

\* ---- templateLoader.ts, the arithmetic of the evaluators ------------------
\* A JavaScript number is kept exactly, as the fraction num/den in lowest
\* terms with den > 0; den = 0 stands for an infinity of the sign of num.
Abs(a) == IF a < 0 THEN 0 - a ELSE a

RECURSIVE GCD(_, _)
GCD(a, b) == IF b = 0 THEN a ELSE GCD(b, a % b)

Ratio(n, d) ==
  LET g == GCD(Abs(n), d)
  IN [num |-> n \div g, den |-> d \div g]

PositiveInfinity == [num |-> 1, den |-> 0]
NegativeInfinity == [num |-> 0 - 1, den |-> 0]
IsFinite(a) == a.den # 0

\* a <= b
NumLeq(a, b) == a.num * b.den <= b.num * a.den

NumMax(a, b) == IF NumLeq(a, b) THEN b ELSE a
NumMin(a, b) == IF NumLeq(a, b) THEN a ELSE b

\* a + b; no caller adds infinities of opposite sign
NumAdd(a, b) ==
  IF ~IsFinite(a) THEN a
  ELSE IF ~IsFinite(b) THEN b
  ELSE LET g == GCD(a.den, b.den)
       IN Ratio(a.num * (b.den \div g) + b.num * (a.den \div g), (a.den \div g) * b.den)

NumNeg(a) == [num |-> 0 - a.num, den |-> a.den]

\* a * k and a / k for an integer k > 0
NumTimes(a, k) == IF IsFinite(a) THEN Ratio(a.num * k, a.den) ELSE a
NumOver(a, k) == IF IsFinite(a) THEN Ratio(a.num, a.den * k) ELSE a

\* Math.round: the nearest integer, halves upwards; an infinity is kept
MathRound(a) ==
  IF IsFinite(a) THEN Ratio((2 * a.num + a.den) \div (2 * a.den), 1) ELSE a

\* sampleCount arguments of the two resamplePath calls of evaluateStroke
StrokeSamples == 90
ReferenceSamples == 160

\* Resampled coordinates are kept in units of 1/GridUnit pixel, which holds
\* the points of both resampled paths exactly when the input coordinates
\* are integers and every segment of the input is parallel to an axis.
GridUnit == (StrokeSamples - 1) * (ReferenceSamples - 1)

ToGrid(point) == <<point[1] * GridUnit, point[2] * GridUnit>>

\* largest r with r * r <= n
RECURSIVE Isqrt(_, _)
Isqrt(n, r) == IF (r + 1) * (r + 1) > n THEN r ELSE Isqrt(n, r + 1)

\* distance = Math.hypot(dx, dy), in the unit of its arguments; exact when
\* the two points share a coordinate, rounded down to the unit otherwise
distance(a, b) ==
  IF a[2] = b[2] THEN Abs(a[1] - b[1])
  ELSE IF a[1] = b[1] THEN Abs(a[2] - b[2])
  ELSE Isqrt((a[1] - b[1]) * (a[1] - b[1]) + (a[2] - b[2]) * (a[2] - b[2]), 0)

\* lengthSegments[i - 1] of resamplePath: the length of the path up to its
\* i-th point
RECURSIVE LengthUpTo(_, _)
LengthUpTo(points, i) ==
  IF i <= 1 THEN 0
  ELSE LengthUpTo(points, i - 1) + distance(points[i - 1], points[i])

\* variant: a path without length is sampled like any other
ZeroLength_never(totalLength) == FALSE

\* totalLength === 0
ZeroLength(totalLength) == totalLength = 0

\* variant: sample i is taken at the arc length of sample i + 1
TargetLength_next(totalLength, i, sampleCount) ==
  totalLength * (i + 1) * (GridUnit \div (sampleCount - 1))

\* target = (totalLength * i) / (sampleCount - 1) of sample i = 0, 1, ..., as
\* a number of grid units (sampleCount - 1 divides GridUnit)
TargetLength(totalLength, i, sampleCount) ==
  totalLength * i * (GridUnit \div (sampleCount - 1))

\* resamplePath(points, sampleCount); the points returned are in grid units
resamplePath(points, sampleCount) ==
  IF Len(points) = 0 THEN <<>>
  ELSE
    LET lengthSegments == [i \in 1..Len(points) |-> LengthUpTo(points, i)]
        totalLength == lengthSegments[Len(points)]
    IN IF ZeroLength(totalLength)
       THEN [k \in 1..Len(points) |-> ToGrid(points[k])]
       ELSE [k \in 1..sampleCount |->
               LET target == TargetLength(totalLength, k - 1, sampleCount)
                   found == {i \in 1..Len(points) : lengthSegments[i] * GridUnit >= target}
                   idx == IF found = {} THEN Len(points)
                          ELSE CHOOSE i \in found : \A o \in found : i <= o
                   prevIdx == IF idx - 1 > 1 THEN idx - 1 ELSE 1
                   prevLength == lengthSegments[prevIdx]
                   nextLength == lengthSegments[idx]
                   segmentLength == IF nextLength - prevLength = 0 THEN 1
                                    ELSE nextLength - prevLength
                   along == target - prevLength * GridUnit
                   prevPoint == points[prevIdx]
                   nextPoint == points[idx]
               IN << prevPoint[1] * GridUnit + ((nextPoint[1] - prevPoint[1]) * along) \div segmentLength,
                     prevPoint[2] * GridUnit + ((nextPoint[2] - prevPoint[2]) * along) \div segmentLength >>]

\* the minDist loops of evaluateStroke: the smallest distance from point to
\* the points lo..hi of path (the range is halved to keep the evaluation
\* shallow; the minimum does not depend on the order)
RECURSIVE MinDist(_, _, _, _)
MinDist(point, path, lo, hi) ==
  IF lo = hi THEN distance(point, path[lo])
  ELSE LET mid == (lo + hi) \div 2
           left == MinDist(point, path, lo, mid)
           right == MinDist(point, path, mid + 1, hi)
       IN IF right < left THEN right ELSE left

\* values[lo] + ... + values[hi]
RECURSIVE SumOf(_, _, _)
SumOf(values, lo, hi) ==
  IF lo > hi THEN 0
  ELSE IF lo = hi THEN values[lo]
  ELSE LET mid == (lo + hi) \div 2
       IN SumOf(values, lo, mid) + SumOf(values, mid + 1, hi)

Green == "rgba(34,197,94,0.9)"
Red == "rgba(239,68,68,0.85)"

\* variant: an unscoreable pair counts as a pair without deviation
SentinelStrokeEvaluation_noDeviation ==
  [coverage |-> Ratio(0, 1), averageDeviation |-> Ratio(0, 1), segments |-> <<>>]

\* the value evaluateStroke returns for an unscoreable pair
SentinelStrokeEvaluation ==
  [coverage |-> Ratio(0, 1), averageDeviation |-> PositiveInfinity, segments |-> <<>>]

\* variant: only an empty stroke is left unscored
StrokeTooShort_empty(stroke) == Len(stroke) < 1

\* the guard of evaluateStroke: stroke.length < 2
StrokeTooShort(stroke) == Len(stroke) < 2

\* the guard of evaluateStroke: reference.length === 0
ReferenceMissing(reference) == Len(reference) = 0

\* variant: the loop stops one resampled stroke point earlier
SegmentCount_fewer(sampledStroke) == Len(sampledStroke) - 2

\* iterations of the loop over the resampled stroke points, which runs while
\* i < sampledStroke.length - 1; each adds one minDist to deviationSum and
\* pushes one segment
SegmentCount(sampledStroke) == Len(sampledStroke) - 1

\* variant: the tolerance is a fixed number of pixels
CoveredReferencePoints_fixed(refDistances, threshold) ==
  {j \in 1..Len(refDistances) : refDistances[j] <= 5 * GridUnit}

\* variant: a reference point counts when it is within half the threshold
CoveredReferencePoints_half(refDistances, threshold) ==
  {j \in 1..Len(refDistances) : 2 * refDistances[j] <= threshold * GridUnit}

\* refDistances.filter((value) => value <= threshold), as the set of indices
CoveredReferencePoints(refDistances, threshold) ==
  {j \in 1..Len(refDistances) : refDistances[j] <= threshold * GridUnit}

\* evaluateStroke(stroke, reference, threshold) on points with integer pixel
\* coordinates and an integer threshold, computed number by number
StrokeEvaluationOf(stroke, reference, threshold) ==
  IF StrokeTooShort(stroke) \/ ReferenceMissing(reference)
  THEN SentinelStrokeEvaluation
  ELSE
    LET sampledStroke == resamplePath(stroke, StrokeSamples)
        sampledReference == resamplePath(reference, ReferenceSamples)
        refDistances == [j \in 1..Len(sampledReference) |->
                           MinDist(sampledReference[j], sampledStroke, 1, Len(sampledStroke))]
        minDists == [i \in 1..SegmentCount(sampledStroke) |->
                       MinDist(sampledStroke[i], sampledReference, 1, Len(sampledReference))]
        deviationSum == SumOf(minDists, 1, Len(minDists))
        covered == CoveredReferencePoints(refDistances, threshold)
    IN [coverage |-> Ratio(Cardinality(covered), Len(refDistances)),
        averageDeviation |-> Ratio(deviationSum, GridUnit * Len(sampledStroke)),
        segments |-> [i \in 1..SegmentCount(sampledStroke) |->
                        [start |-> sampledStroke[i], end |-> sampledStroke[i + 1],
                         color |-> IF minDists[i] <= threshold * GridUnit
                                   THEN Green ELSE Red]]]

\* the messages of an EvaluationSummary, without their diacritics
PromptMessage == "Zacznij rysowac, aby otrzymac ocene."
RetryMessage == "Sprobuj jeszcze raz - skup sie na prowadzeniu linii po wzorze."
FairMessage == "Calkiem niezle! Zwroc uwage na miejsca zaznaczone na czerwono."
GoodMessage == "Bardzo dobrze! Kilka fragmentow wymaga dopracowania."
ExcellentMessage == "Swietnie! Twoj szkic bardzo dobrze pokrywa wzor."

\* variant: the summary of an empty drawing carries the full score
ZeroSummary_full ==
  [score |-> Ratio(100, 1), coverage |-> Ratio(0, 1),
   averageDeviation |-> PositiveInfinity, message |-> PromptMessage]

\* the summary evaluateDrawing returns when a list is empty
ZeroSummary ==
  [score |-> Ratio(0, 1), coverage |-> Ratio(0, 1),
   averageDeviation |-> PositiveInfinity, message |-> PromptMessage]

\* variant: only the first pair is scored
PairCount_first(strokeList, templateStrokes) == 1

\* minStrokeCount
PairCount(strokeList, templateStrokes) == Min(Len(strokeList), Len(templateStrokes))

\* variant: totalCoverage lives outside the function and starts from what
\* the latest logged call returned
InitialTotals_carried ==
  [coverage |-> IF call.fn = "evaluations" /\ Len(call.log) > 0
                THEN call.log[Len(call.log)].result.coverage
                ELSE Ratio(0, 1),
   averageDeviation |-> Ratio(0, 1)]

\* let totalCoverage = 0; let totalDeviation = 0: the accumulators are locals
\* of the call
InitialTotals == [coverage |-> Ratio(0, 1), averageDeviation |-> Ratio(0, 1)]

\* totalCoverage and totalDeviation after the first k iterations of the
\* loop; the evaluation of an iteration is bound once, as by
\* const evaluation = evaluateStroke(...)
RECURSIVE Totals(_, _, _, _)
Totals(strokeList, templateStrokes, threshold, k) ==
  IF k = 0 THEN InitialTotals
  ELSE CHOOSE totals \in
         {[coverage |-> NumAdd(previous.coverage, pairEvaluation.coverage),
           averageDeviation |-> NumAdd(previous.averageDeviation,
                                       pairEvaluation.averageDeviation)] :
            previous \in {Totals(strokeList, templateStrokes, threshold, k - 1)},
            pairEvaluation \in {StrokeEvaluationOf(strokeList[k], templateStrokes[k].path,
                                                   threshold)}} : TRUE

\* variant: the score is cut off, not rounded
Rounded_down(a) ==
  IF IsFinite(a) THEN Ratio(a.num \div a.den, 1) ELSE a

\* the rounding of the score
Rounded(a) == MathRound(a)

\* the summary built from the totals of minStrokeCount pairs
SummaryOf(totals, minStrokeCount, threshold) ==
  LET coverage == NumOver(totals.coverage, minStrokeCount)
      averageDeviation == NumOver(totals.averageDeviation, minStrokeCount)
      normalizedDeviation == NumMax(NumOver(averageDeviation, threshold), Ratio(1, 100))
      score == NumMax(Ratio(0, 1),
                 NumMin(Ratio(100, 1),
                   Rounded(NumAdd(NumTimes(coverage, 100),
                                  NumNeg(NumTimes(normalizedDeviation, 35))))))
      message == IF ~NumLeq(Ratio(30, 1), score) THEN RetryMessage
                 ELSE IF ~NumLeq(Ratio(60, 1), score) THEN FairMessage
                 ELSE IF ~NumLeq(Ratio(85, 1), score) THEN GoodMessage
                 ELSE ExcellentMessage
  IN [score |-> score, coverage |-> coverage,
      averageDeviation |-> averageDeviation, message |-> message]

\* evaluateDrawing(strokes, template, threshold); template is a list of
\* StrokeDefinition records, of which only the path is read
EvaluationSummaryOf(strokeList, templateStrokes, threshold) ==
  IF Len(strokeList) = 0 \/ Len(templateStrokes) = 0
  THEN ZeroSummary
  ELSE CHOOSE summary \in
         {SummaryOf(totals, minStrokeCount, threshold) :
            minStrokeCount \in {PairCount(strokeList, templateStrokes)},
            totals \in {Totals(strokeList, templateStrokes, threshold,
                               PairCount(strokeList, templateStrokes))}} : TRUE

\* ---- TracingCanvas.tsx ---------------------------------------------------
IsStroke(e) == e # hole /\ e # undefinedEntry

\* number of points held by the first n slots of a stroke list
RECURSIVE PointCount(_, _)
PointCount(list, n) ==
  IF n = 0 THEN 0
  ELSE PointCount(list, n - 1) + (IF IsStroke(list[n]) THEN Len(list[n]) ELSE 0)

\* the model stops accepting points at MaxPoints stored or arrived points
RoomForPoint == PointCount(strokes, Len(strokes)) < MaxPoints /\ Len(arrived) < MaxPoints

toCanvasPoint(client) ==
  << ((client[1] - boundingRect.left) * width) \div boundingRect.width,
     ((client[2] - boundingRect.top) * height) \div boundingRect.height >>

\* distance(a, b) < 0.5, squared and multiplied by 4
DistanceBelowHalf(a, b) ==
  4 * ((a[1] - b[1]) * (a[1] - b[1]) + (a[2] - b[2]) * (a[2] - b[2])) < 1

\* [...previous]: the spread copy turns never-assigned slots into undefined
SpreadCopy(list) ==
  [i \in 1..Len(list) |-> IF list[i] = hole THEN undefinedEntry ELSE list[i]]

\* updated[index] = value on a copy: slots between the old length and index
\* stay unassigned
AssignAt(list, index, value) ==
  [i \in 1..(IF index + 1 > Len(list) THEN index + 1 ELSE Len(list)) |->
     IF i = index + 1 THEN value
     ELSE IF i <= Len(list) THEN list[i] ELSE hole]

HoleEvaluation == [scored |-> FALSE, stroke |-> << <<>> >>, reference |-> <<>>]

\* variant: the stroke is compared against the following reference stroke
ReferenceIndexFor_next(i) == i + 1

\* the reference stroke index that the evaluation of stroke index i uses
ReferenceIndexFor(i) == i

\* variant: the effect goes on without a template
TemplateMissing_never(t) == FALSE

\* !scaledTemplate: the memo is null exactly when the template prop is
TemplateMissing(t) == t = NoTemplate

\* The evaluation effect (deps: strokes, scaledTemplate, ...) run on the
\* stroke list s with template t; evs, ev, del are the values it overwrites.
\* The evaluators receive smoothStroke(stroke); the evaluation records keep
\* the stroke that was smoothed, and SmoothedLength gives the length that
\* evaluateStroke's guard reads.
EvaluationEffect(s, t, evs, ev, del) ==
  IF TemplateMissing(t)
  THEN [threw |-> FALSE, strokeEvaluations |-> evs, evaluation |-> ev,
        delivered |-> del, calls |-> {}]
  ELSE IF Len(s) = 0
  THEN [threw |-> FALSE, strokeEvaluations |-> <<>>, evaluation |-> NullSummary,
        delivered |-> NullSummary, calls |-> {}]
  ELSE
    LET tstrokes == scaleTemplate(t).strokes
        minStrokeCount == Min(Len(s), Len(tstrokes))
        \* strokes.map(smoothStroke) calls smoothStroke(undefined);
        \* evaluateDrawing reads .length of a never-assigned slot
        throws == \/ \E i \in 1..Len(s) : s[i] = undefinedEntry
                  \/ \E i \in 1..minStrokeCount : s[i] = hole
        smoothedStrokes == s
        evaluations ==
          [i \in 1..Len(s) |->
             IF s[i] = hole THEN HoleEvaluation
             ELSE IF ReferenceIndexFor(i) > Len(tstrokes) THEN SentinelEvaluation
             ELSE evaluateStroke(smoothedStrokes[i], tstrokes[ReferenceIndexFor(i)])]
        mapCalls == {[strokeIndex |-> i - 1, referenceIndex |-> ReferenceIndexFor(i) - 1,
                      template |-> t] :
                       i \in {k \in 1..Len(s) : s[k] # hole /\ ReferenceIndexFor(k) <= Len(tstrokes)}}
        drawingCalls == {[strokeIndex |-> i - 1, referenceIndex |-> i - 1,
                          template |-> t] : i \in 1..minStrokeCount}
    IN IF throws
       THEN [threw |-> TRUE, strokeEvaluations |-> evs, evaluation |-> ev,
             delivered |-> del, calls |-> {}]
       ELSE LET summary == evaluateDrawing(smoothedStrokes, tstrokes)
            IN [threw |-> FALSE, strokeEvaluations |-> evaluations,
                evaluation |-> summary, delivered |-> summary,
                calls |-> mapCalls \cup drawingCalls]

\* drawEvaluationSegments(ctx, evaluations, lineWidth): the indices of the
\* strokes of which a segment is stroked on the canvas; only a scored
\* evaluation has segments (at least 16 of them)
drawEvaluationSegments(evaluations) ==
  {i \in 1..Len(evaluations) : evaluations[i].scored}

\* variant: the cleanup forgets the request without cancelling it
CancelFrame_forget(f) == [current |-> "null", pending |-> f.pending]

\* the cleanup of the effect of useAnimationFrame: cancelAnimationFrame of
\* frame.current, which takes a pending request away and does nothing for
\* the id of a request that has run
CancelFrame(f) ==
  [current |-> "null",
   pending |-> IF f.current = "live" THEN f.pending - 1 ELSE f.pending]

\* frame.current = requestAnimationFrame(loop)
RequestFrame(f) == [current |-> "live", pending |-> f.pending + 1]

\* The effect of useAnimationFrame(draw, true) in the commits of a handler:
\* when the component is unmounted the cleanup runs; when draw is another
\* function (activeStroke or strokeEvaluations is another object) the
\* cleanup runs and the effect requests a frame for the new loop.  No
\* handler calls draw.
Redraw(drawChanged) ==
  /\ frame' = IF ~mounted' THEN CancelFrame(frame)
              ELSE IF drawChanged THEN RequestFrame(CancelFrame(frame))
              ELSE frame
  /\ drawCalls' = 0

\* commit of the state the effect leaves behind
Settle(r) ==
  /\ strokeEvaluations' = r.strokeEvaluations
  /\ evaluation' = r.evaluation
  /\ delivered' = r.delivered
  /\ evaluateStrokeCalls' = r.calls
  /\ mounted' = ~r.threw

Init ==
  /\ template = NoTemplate
  /\ strokes = <<>>
  /\ activeStroke = NoStroke
  /\ strokeEvaluations = <<>>
  /\ evaluation = NullSummary
  /\ pointerState = NoPointer
  /\ delivered = NullSummary
  /\ evaluateStrokeCalls = {}
  /\ mounted = TRUE
  /\ arrived = <<>>
  /\ lastOp = "init"
  /\ call = NoCall
  /\ frame = [current |-> "live", pending |-> 1]
  /\ drawCalls = 0
  /\ loader = ModuleLoaded
  /\ practice = NoPractice
  /\ pointerEvents = NoHook

\* handlePointerDown (registered on the canvas; no guard on pointerState)
handlePointerDown(id, client) ==
  LET point == toCanvasPoint(client)
      updated == SpreadCopy(strokes) \o << <<point>> >>
  IN /\ pointerState' = [id |-> id, strokeIndex |-> Len(strokes)]
     /\ activeStroke' = <<point>>
     /\ strokes' = updated
     /\ arrived' = <<point>>
     /\ Settle(EvaluationEffect(updated, template, strokeEvaluations, evaluation, delivered))

PointerDown(id, client) ==
  /\ mounted
  /\ Len(strokes) < MaxStrokes
  /\ PointCount(strokes, Len(strokes)) < MaxPoints
  /\ handlePointerDown(id, client)
  /\ lastOp' = "pointerdown"
  /\ UNCHANGED <<template, call, loader, practice, pointerEvents>>
  /\ Redraw(TRUE)

\* the setActiveStroke updater of handlePointerMove
NextActiveStroke(current, point) ==
  IF current = NoStroke THEN <<point>>
  ELSE IF Len(current) > 1 /\ DistanceBelowHalf(current[Len(current)], point) THEN current
  ELSE Append(current, point)

\* variant: the point goes to the last stroke of the list instead of the
\* stroke at the recorded index
NextStrokes_last(previous, index, point) ==
  LET updated == SpreadCopy(previous)
      last == IF Len(updated) = 0 THEN 0 ELSE Len(updated) - 1
      currentStroke == IF last + 1 <= Len(updated) /\ IsStroke(updated[last + 1])
                       THEN updated[last + 1] ELSE <<>>
  IN AssignAt(updated, last, Append(currentStroke, point))

\* the setStrokes updater of handlePointerMove
NextStrokes(previous, index, point) ==
  LET updated == SpreadCopy(previous)
      currentStroke == IF index + 1 <= Len(updated) /\ IsStroke(updated[index + 1])
                       THEN updated[index + 1] ELSE <<>>
  IN AssignAt(updated, index, Append(currentStroke, point))

\* does handlePointerMove / handlePointerUp return early for this event?
Ignored(id) == pointerState = NoPointer \/ pointerState.id # id

handlePointerMove(id, client) ==
  IF Ignored(id)
  THEN UNCHANGED vars
  ELSE LET point == toCanvasPoint(client)
           updated == NextStrokes(strokes, pointerState.strokeIndex, point)
       IN /\ activeStroke' = NextActiveStroke(activeStroke, point)
          /\ strokes' = updated
          /\ arrived' = Append(arrived, point)
          /\ Settle(EvaluationEffect(updated, template, strokeEvaluations, evaluation, delivered))
          /\ lastOp' = "pointermove"
          /\ UNCHANGED <<pointerState, template, call, loader, practice, pointerEvents>>
          /\ Redraw(activeStroke' # activeStroke \/ ~TemplateMissing(template))

PointerMove(id, client) ==
  /\ mounted
  /\ RoomForPoint
  /\ handlePointerMove(id, client)

\* variant: pointer-cancel discards the last stroke of the list
handlePointerUp_discard(id, type) ==
  IF Ignored(id)
  THEN UNCHANGED vars
  ELSE LET kept == IF type = "pointercancel" /\ Len(strokes) > 0
                   THEN SubSeq(strokes, 1, Len(strokes) - 1) ELSE strokes
       IN /\ pointerState' = NoPointer
          /\ activeStroke' = NoStroke
          /\ arrived' = <<>>
          /\ strokes' = kept
          /\ evaluateStrokeCalls' = {}
          /\ lastOp' = type
          /\ UNCHANGED <<template, strokeEvaluations, evaluation, delivered, mounted, call, loader, practice, pointerEvents>>
          /\ Redraw(activeStroke # NoStroke)

\* handlePointerUp (registered on window for pointerup and pointercancel)
handlePointerUp(id, type) ==
  IF Ignored(id)
  THEN UNCHANGED vars
  ELSE /\ pointerState' = NoPointer
       /\ activeStroke' = NoStroke
       /\ arrived' = <<>>
       /\ evaluateStrokeCalls' = {}
       /\ lastOp' = type
       /\ UNCHANGED <<template, strokes, strokeEvaluations, evaluation, delivered, mounted,
                      call, loader, practice, pointerEvents>>
       /\ Redraw(activeStroke # NoStroke)

PointerUp(id) ==
  /\ mounted
  /\ handlePointerUp(id, "pointerup")

PointerCancel(id) ==
  /\ mounted
  /\ handlePointerUp(id, "pointercancel")

\* variant: slice(1) instead of slice(0, length - 1)
UndoStrokes_dropFirst(previous) ==
  IF Len(previous) = 0 THEN previous ELSE Tail(previous)

\* variant: slice(0, length) instead of slice(0, length - 1)
UndoStrokes_keepAll(previous) == previous

\* the setStrokes updater of undo
UndoStrokes(previous) ==
  IF Len(previous) = 0 THEN previous ELSE SubSeq(previous, 1, Len(previous) - 1)

\* undo(): an unchanged (empty) list triggers no render of the effect
undo ==
  /\ mounted
  /\ strokes' = UndoStrokes(strokes)
  /\ activeStroke' = NoStroke
  /\ IF Len(strokes) = 0
     THEN /\ UNCHANGED <<strokeEvaluations, evaluation, delivered, mounted>>
          /\ evaluateStrokeCalls' = {}
     ELSE Settle(EvaluationEffect(UndoStrokes(strokes), template,
                                  strokeEvaluations, evaluation, delivered))
  /\ lastOp' = "undo"
  /\ UNCHANGED <<template, pointerState, arrived, call, loader, practice, pointerEvents>>
  /\ Redraw(activeStroke # NoStroke \/ (Len(strokes) > 0 /\ ~TemplateMissing(template)))

\* variant: reset() hands the prompt summary of evaluateDrawing to the parent
reset_prompt ==
  /\ mounted
  /\ strokes' = <<>>
  /\ activeStroke' = NoStroke
  /\ Settle(EvaluationEffect(<<>>, template, <<>>, NullSummary, PromptSummary))
  /\ lastOp' = "reset"
  /\ UNCHANGED <<template, pointerState, arrived, call, loader, practice, pointerEvents>>
  /\ Redraw(TRUE)

\* reset(): clears the four state cells and notifies null; the render that
\* follows runs the evaluation effect on the empty list
reset ==
  /\ mounted
  /\ strokes' = <<>>
  /\ activeStroke' = NoStroke
  /\ Settle(EvaluationEffect(<<>>, template, <<>>, NullSummary, NullSummary))
  /\ lastOp' = "reset"
  /\ UNCHANGED <<template, pointerState, arrived, call, loader, practice, pointerEvents>>
  /\ Redraw(TRUE)

\* The parent passes another template.  First commit: the reset effect queues
\* the clearing updates and the evaluation effect, whose dependency
\* scaledTemplate changed too, runs on the strokes of that render (the old
\* ones).  Second commit: the cleared list triggers the evaluation effect
\* again.
SetTemplate(t) ==
  /\ mounted
  /\ t # template
  /\ LET first == EvaluationEffect(strokes, t, strokeEvaluations, evaluation, delivered)
         second == EvaluationEffect(<<>>, t, <<>>, NullSummary, first.delivered)
     IN IF first.threw
        THEN /\ mounted' = FALSE
             /\ evaluateStrokeCalls' = {}
             /\ UNCHANGED <<strokes, activeStroke, strokeEvaluations, evaluation, delivered>>
        ELSE /\ strokes' = <<>>
             /\ activeStroke' = NoStroke
             /\ strokeEvaluations' = second.strokeEvaluations
             /\ evaluation' = second.evaluation
             /\ delivered' = second.delivered
             /\ evaluateStrokeCalls' = first.calls \cup second.calls
             /\ mounted' = TRUE
  /\ template' = t
  /\ lastOp' = "template"
  /\ UNCHANGED <<pointerState, arrived, call, loader, practice, pointerEvents>>
  /\ Redraw(TRUE)

Next ==
  \/ \E id \in PointerIds, client \in ClientPoints : PointerDown(id, client)
  \/ \E id \in PointerIds, client \in ClientPoints : PointerMove(id, client)
  \/ \E id \in PointerIds : PointerUp(id)
  \/ \E id \in PointerIds : PointerCancel(id)
  \/ undo
  \/ reset
  \/ \E t \in TemplateIds \cup {NoTemplate} : SetTemplate(t)

Spec == Init /\ [][Next]_vars

\* ---- the animation frames of the canvas ------------------------------------
\* draw() iterates evaluation.segments of every entry of strokeEvaluations; a
\* never-assigned slot is visited as undefined and the property read throws
DrawThrows == \E i \in 1..Len(strokeEvaluations) : strokeEvaluations[i] = HoleEvaluation

\* A display frame: the browser runs the callbacks of the pending requests.
\* Each is loop(): callback(), i.e. the draw of the latest render, then
\* frame.current = requestAnimationFrame(loop); when draw throws, the
\* request is not renewed.
Tick ==
  /\ drawCalls' = frame.pending
  /\ frame' = IF frame.pending = 0 THEN frame
              ELSE IF DrawThrows
              THEN [current |-> IF frame.current = "live" THEN "stale" ELSE frame.current,
                    pending |-> 0]
              ELSE [current |-> "live", pending |-> frame.pending]
  /\ lastOp' = "frame"
  /\ UNCHANGED <<template, strokes, activeStroke, strokeEvaluations, evaluation,
                 pointerState, delivered, evaluateStrokeCalls, mounted, arrived, call, loader, practice, pointerEvents>>

\* The parent removes the canvas: React runs the cleanup of the effects.
Unmount ==
  /\ mounted
  /\ mounted' = FALSE
  /\ frame' = CancelFrame(frame)
  /\ drawCalls' = 0
  /\ lastOp' = "unmount"
  /\ UNCHANGED <<template, strokes, activeStroke, strokeEvaluations, evaluation,
                 pointerState, delivered, evaluateStrokeCalls, arrived, call, loader, practice, pointerEvents>>

NextFrames ==
  \/ Next
  \/ Tick
  \/ Unmount

SpecFrames == Init /\ [][NextFrames]_vars

\* ---- direct calls of evaluateStroke ----------------------------------------
\* The arguments are drawn from paths on the line y = 0.
MaxPathLen == 3

StrokeXs == {0, 50, 100}

\* every path of at most n points with x in xs
PathsOver(xs, n) ==
  UNION {[1..len -> {<<x, 0>> : x \in xs}] : len \in 0..n}

StrokePaths == PathsOver(StrokeXs, MaxPathLen)

ReferencePaths ==
  {<<>>, << <<0, 0>> >>, << <<0, 0>>, <<0, 0>> >>, << <<0, 0>>, <<100, 0>> >>,
   << <<100, 0>>, <<0, 0>> >>}

Thresholds == {5, 60}

\* the canvas of Init
IdleCanvas ==
  /\ template = NoTemplate
  /\ strokes = <<>>
  /\ activeStroke = NoStroke
  /\ strokeEvaluations = <<>>
  /\ evaluation = NullSummary
  /\ pointerState = NoPointer
  /\ delivered = NullSummary
  /\ evaluateStrokeCalls = {}
  /\ mounted = TRUE
  /\ arrived = <<>>
  /\ lastOp = "init"
  /\ frame = [current |-> "live", pending |-> 1]
  /\ drawCalls = 0

\* the canvas session of Init, in which nothing happens during the calls
Idle ==
  /\ IdleCanvas
  /\ loader = ModuleLoaded
  /\ practice = NoPractice
  /\ pointerEvents = NoHook

session == <<template, strokes, activeStroke, strokeEvaluations, evaluation,
             pointerState, delivered, evaluateStrokeCalls, mounted, arrived, lastOp,
             frame, drawCalls, loader, practice, pointerEvents>>

InitStroke ==
  /\ Idle
  /\ call \in {[fn |-> "evaluateStroke", returned |-> FALSE, stroke |-> s,
                 reference |-> r, threshold |-> th] :
                  s \in StrokePaths, r \in ReferencePaths, th \in Thresholds}

EvaluateStroke ==
  /\ call.fn = "evaluateStroke"
  /\ ~call.returned
  /\ call' = [fn |-> "evaluateStroke", returned |-> TRUE, stroke |-> call.stroke,
              reference |-> call.reference, threshold |-> call.threshold,
              result |-> StrokeEvaluationOf(call.stroke, call.reference, call.threshold)]
  /\ UNCHANGED session

NextStroke == EvaluateStroke

SpecStroke == InitStroke /\ [][NextStroke]_vars

\* ---- direct calls of evaluateDrawing ---------------------------------------
MaxDrawingStrokes == 2

\* a single point, the exact trace of the line, a stroke that does not move,
\* and a stroke over the first half of the line
DrawnStrokes ==
  {<< <<0, 0>> >>, << <<0, 0>>, <<100, 0>> >>, << <<50, 0>>, <<50, 0>> >>,
   << <<0, 0>>, <<50, 0>> >>}

StrokeLists == UNION {[1..n -> DrawnStrokes] : n \in 0..MaxDrawingStrokes}

\* StrokeDefinition values: the line (0,0)-(100,0) and a path that stays at
\* (0,0)
LineStroke == [path |-> << <<0, 0>>, <<100, 0>> >>]
DotStroke == [path |-> << <<0, 0>>, <<0, 0>> >>]

TemplateStrokeLists ==
  {<<>>, <<LineStroke>>, <<DotStroke>>, <<LineStroke, DotStroke>>,
   <<LineStroke, DotStroke, LineStroke>>, <<DotStroke, LineStroke, LineStroke>>}

InitDrawing ==
  /\ Idle
  /\ call \in {[fn |-> "evaluateDrawing", returned |-> FALSE, strokes |-> s,
                 template |-> t, threshold |-> th] :
                  s \in StrokeLists, t \in TemplateStrokeLists, th \in Thresholds}

EvaluateDrawing ==
  /\ call.fn = "evaluateDrawing"
  /\ ~call.returned
  /\ call' = [fn |-> "evaluateDrawing", returned |-> TRUE, strokes |-> call.strokes,
              template |-> call.template, threshold |-> call.threshold,
              result |-> EvaluationSummaryOf(call.strokes, call.template, call.threshold)]
  /\ UNCHANGED session

NextDrawing == EvaluateDrawing

SpecDrawing == InitDrawing /\ [][NextDrawing]_vars

\* ---- direct calls of resamplePath ------------------------------------------
\* the sample counts of evaluateStroke and two small ones; sampleCount - 1
\* divides GridUnit for each of them
SampleCounts == {2, 4, StrokeSamples, ReferenceSamples}

InitResample ==
  /\ Idle
  /\ call \in {[fn |-> "resamplePath", returned |-> FALSE, points |-> p,
                 sampleCount |-> n] : p \in StrokePaths, n \in SampleCounts}

ResamplePath ==
  /\ call.fn = "resamplePath"
  /\ ~call.returned
  /\ call' = [fn |-> "resamplePath", returned |-> TRUE, points |-> call.points,
              sampleCount |-> call.sampleCount,
              result |-> resamplePath(call.points, call.sampleCount)]
  /\ UNCHANGED session

NextResample == ResamplePath

SpecResample == InitResample /\ [][NextResample]_vars

\* ---- repeated calls of the evaluators --------------------------------------
\* A sequence of up to MaxCalls calls of evaluateStroke and evaluateDrawing;
\* call.log keeps, per call, the arguments as they were passed, the
\* argument arrays as they are after the call, and the result.
MaxCalls == 3

HalfStroke == << <<0, 0>>, <<50, 0>> >>

RepeatedStrokeArguments ==
  {[stroke |-> s, reference |-> LineStroke.path, threshold |-> 5] :
     s \in {LineStroke.path, HalfStroke, << <<50, 0>> >>}}

RepeatedDrawingArguments ==
  {[strokes |-> s, template |-> <<LineStroke, DotStroke>>, threshold |-> 5] :
     s \in {<<LineStroke.path>>, <<HalfStroke, HalfStroke>>}}

\* an argument array after the call: no statement of the evaluators, of
\* resamplePath or of distance writes to an element or a property of its
\* arguments (resamplePath builds its result with push and [...points])
ArrayAfterCall(array) == array

InitRepeat ==
  /\ Idle
  /\ call = [fn |-> "evaluations", log |-> <<>>]

EvaluateStrokeAgain(a) ==
  /\ call.fn = "evaluations"
  /\ Len(call.log) < MaxCalls
  /\ call' = [fn |-> "evaluations",
              log |-> Append(call.log,
                        [fn |-> "evaluateStroke", arguments |-> a,
                         after |-> [stroke |-> ArrayAfterCall(a.stroke),
                                    reference |-> ArrayAfterCall(a.reference),
                                    threshold |-> a.threshold],
                         result |-> StrokeEvaluationOf(a.stroke, a.reference,
                                                       a.threshold)])]
  /\ UNCHANGED session

EvaluateDrawingAgain(a) ==
  /\ call.fn = "evaluations"
  /\ Len(call.log) < MaxCalls
  /\ call' = [fn |-> "evaluations",
              log |-> Append(call.log,
                        [fn |-> "evaluateDrawing", arguments |-> a,
                         after |-> [strokes |-> ArrayAfterCall(a.strokes),
                                    template |-> ArrayAfterCall(a.template),
                                    threshold |-> a.threshold],
                         result |-> EvaluationSummaryOf(a.strokes, a.template,
                                                        a.threshold)])]
  /\ UNCHANGED session

NextRepeat ==
  \/ \E a \in RepeatedStrokeArguments : EvaluateStrokeAgain(a)
  \/ \E a \in RepeatedDrawingArguments : EvaluateDrawingAgain(a)

SpecRepeat == InitRepeat /\ [][NextRepeat]_vars

\* ---- evaluateStroke on scaled arguments ------------------------------------
\* One call on (stroke, reference, threshold) and one on the same arguments
\* multiplied by factor.
ScaleFactors == {2, 3}

ScalePath(path, k) == [i \in 1..Len(path) |-> <<k * path[i][1], k * path[i][2]>>]

InitScaled ==
  /\ Idle
  /\ call \in {[fn |-> "evaluateStroke, scaled", returned |-> FALSE, stroke |-> s,
                 reference |-> r, threshold |-> th, factor |-> k] :
                  s \in StrokePaths, r \in ReferencePaths, th \in Thresholds,
                  k \in ScaleFactors}

EvaluateScaled ==
  /\ call.fn = "evaluateStroke, scaled"
  /\ ~call.returned
  /\ call' = [fn |-> "evaluateStroke, scaled", returned |-> TRUE,
              stroke |-> call.stroke, reference |-> call.reference,
              threshold |-> call.threshold, factor |-> call.factor,
              result |-> StrokeEvaluationOf(call.stroke, call.reference, call.threshold),
              scaledResult |-> StrokeEvaluationOf(ScalePath(call.stroke, call.factor),
                                                  ScalePath(call.reference, call.factor),
                                                  call.factor * call.threshold)]
  /\ UNCHANGED session

NextScaled == EvaluateScaled

SpecScaled == InitScaled /\ [][NextScaled]_vars

\* ---- direct calls of smoothStroke ------------------------------------------
StrokePoints == {<<0, 0>>, <<100, 0>>, <<50, 80>>, <<0, 640>>}

SmoothedStrokes == UNION {[1..len -> StrokePoints] : len \in 0..MaxPathLen}

InitSmooth ==
  /\ Idle
  /\ call \in {[fn |-> "smoothStroke", returned |-> FALSE, stroke |-> s] :
                  s \in SmoothedStrokes}

SmoothStroke ==
  /\ call.fn = "smoothStroke"
  /\ ~call.returned
  /\ call' = [fn |-> "smoothStroke", returned |-> TRUE, stroke |-> call.stroke,
              result |-> smoothStroke(call.stroke)]
  /\ UNCHANGED session

NextSmooth == SmoothStroke

SpecSmooth == InitSmooth /\ [][NextSmooth]_vars

\* ---- templateLoader.ts, the loaders ----------------------------------------
\* The files served under /templates do not change while the page is open:
\* the body of a response is determined by the URL.  A parsed body is a new
\* object at every response, so it carries the fetch it came from.
TemplateUrls == {"/templates/A.json", "/templates/B.json"}

TemplateAt(url) == IF url = "/templates/A.json" THEN "A" ELSE "B"

\* a fetch ends with an ok response, with a response that is not ok, or by
\* rejecting (no network, or a body that is not JSON)
Outcomes == {"ok", "notOk", "rejected"}

\* Map.prototype.has / get / set on the module's cache
CacheHas(cache, url) == \E e \in cache : e.url = url

CacheGet(cache, url) == (CHOOSE e \in cache : e.url = url).data

CacheSet_append(cache, url, data) == cache \cup {[url |-> url, data |-> data]}

CacheSet(cache, url, data) ==
  {e \in cache : e.url # url} \cup {[url |-> url, data |-> data]}

\* loadTemplate(templateUrl) up to its first await: the promise it returns is
\* fulfilled at once with the cached object, or pending on the fetch it issued
loadTemplate(l, templateUrl) ==
  IF CacheHas(l.cache, templateUrl)
  THEN [l EXCEPT !.templateCalls =
          Append(@, [url |-> templateUrl, fetch |-> 0, state |-> "fulfilled",
                     value |-> CacheGet(l.cache, templateUrl)])]
  ELSE [l EXCEPT !.templateFetches = Append(@, templateUrl),
                 !.templateCalls =
          Append(@, [url |-> templateUrl, fetch |-> Len(l.templateFetches) + 1,
                     state |-> "pending", value |-> "none"])]

\* the rest of the i-th call of loadTemplate, run when its fetch has ended
loadTemplateResumes(l, i, outcome) ==
  LET templateUrl == l.templateCalls[i].url
      data == [template |-> TemplateAt(templateUrl),
               response |-> l.templateCalls[i].fetch]
  IN  IF outcome = "ok"
      THEN [l EXCEPT !.cache = CacheSet(@, templateUrl, data),
                     !.templateCalls[i].state = "fulfilled",
                     !.templateCalls[i].value = data]
      ELSE [l EXCEPT !.templateCalls[i].state = "rejected",
                     !.templateCalls[i].value = "error"]

PendingTemplateCalls(l) ==
  {i \in 1..Len(l.templateCalls) : l.templateCalls[i].state = "pending"}

\* if (!manifestPromise)
ManifestPromiseMissing_orRejected(l) ==
  \/ l.manifestPromise = 0
  \/ l.manifestFetches[l.manifestPromise] = "rejected"

ManifestPromiseMissing(l) == l.manifestPromise = 0

\* loadManifest(): a call returns the module's manifestPromise, recorded as
\* the fetch whose outcome the promise takes
loadManifest(l) ==
  LET started ==
        IF ManifestPromiseMissing(l)
        THEN [l EXCEPT !.manifestFetches = Append(@, "pending"),
                       !.manifestPromise = Len(l.manifestFetches) + 1]
        ELSE l
  IN  [started EXCEPT !.manifestCalls = Append(@, started.manifestPromise)]

\* the then-callback of the manifest fetch
manifestFetchEnds(l, outcome) ==
  [l EXCEPT !.manifestFetches[Len(l.manifestFetches)] =
              IF outcome = "ok" THEN "fulfilled" ELSE "rejected"]

ManifestFetchPending(l) ==
  /\ l.manifestFetches # <<>>
  /\ l.manifestFetches[Len(l.manifestFetches)] = "pending"

\* the outcome of the promise the i-th call of loadManifest returned
ManifestCallOutcome(l, i) == l.manifestFetches[l.manifestCalls[i]]

\* ---- direct calls of the loaders --------------------------------------------
canvasSession == <<template, strokes, activeStroke, strokeEvaluations, evaluation,
                   pointerState, delivered, evaluateStrokeCalls, mounted, arrived,
                   frame, drawCalls, call>>

InitLoader ==
  /\ Idle
  /\ call = NoCall

CallLoadTemplate ==
  /\ Len(loader.templateCalls) < MaxLoads
  /\ \E templateUrl \in TemplateUrls :
       loader' = loadTemplate(loader, templateUrl)
  /\ lastOp' = "loadTemplate"
  /\ UNCHANGED <<canvasSession, practice, pointerEvents>>

TemplateFetchEnds ==
  /\ \E i \in PendingTemplateCalls(loader), outcome \in Outcomes :
       loader' = loadTemplateResumes(loader, i, outcome)
  /\ lastOp' = "loadTemplate resumes"
  /\ UNCHANGED <<canvasSession, practice, pointerEvents>>

CallLoadManifest ==
  /\ Len(loader.manifestCalls) < MaxLoads
  /\ loader' = loadManifest(loader)
  /\ lastOp' = "loadManifest"
  /\ UNCHANGED <<canvasSession, practice, pointerEvents>>

ManifestFetchEnds ==
  /\ ManifestFetchPending(loader)
  /\ \E outcome \in Outcomes : loader' = manifestFetchEnds(loader, outcome)
  /\ lastOp' = "manifest fetch ends"
  /\ UNCHANGED <<canvasSession, practice, pointerEvents>>

NextLoader ==
  \/ CallLoadTemplate
  \/ TemplateFetchEnds
  \/ CallLoadManifest
  \/ ManifestFetchEnds

SpecLoader == InitLoader /\ [][NextLoader]_vars

\* ---- CalligraphyPractice.tsx --------------------------------------------------
\* The manifest the server answers with: two alphabets over the two
\* templates.  A letter is recorded as the path of its template.
Manifest ==
  <<[id |-> "first", letters |-> <<"/templates/A.json", "/templates/B.json">>],
    [id |-> "second", letters |-> <<"/templates/B.json", "/templates/A.json">>]>>

AlphabetOf(id) == CHOOSE alphabet \in {Manifest[k] : k \in 1..Len(Manifest)} :
                    alphabet.id = id

\* the component after its first render and effects: loadManifest() has been
\* called, and the template effect, finding no manifest, has set the
\* template to null
Mounted ==
  [present |-> TRUE, manifest |-> "null", selectedAlphabet |-> "null",
   selectedTemplatePath |-> "null", template |-> NoTemplate,
   isLoadingTemplate |-> FALSE, resets |-> 0]

\* the callbacks chained on the promise of loadTemplate, run when the promise
\* has settled: then (setTemplate(loaded)) or catch (setTemplate(null)), and
\* finally (setIsLoadingTemplate(false), tracingRef.current?.reset())
LoadChain(p, settled) ==
  [p EXCEPT !.template = IF settled.state = "fulfilled"
                         THEN settled.value.template
                         ELSE NoTemplate,
            !.isLoadingTemplate = FALSE,
            !.resets = @ + 1]

\* the effect on [selectedTemplatePath, manifest]; a promise that is fulfilled
\* from the cache runs its callbacks before any other event is handled
TemplateEffect(p, l) ==
  IF p.selectedTemplatePath = "null" \/ p.manifest = "null"
  THEN [practice |-> [p EXCEPT !.template = NoTemplate], loader |-> l]
  ELSE LET started == loadTemplate(l, p.selectedTemplatePath)
           returned == started.templateCalls[Len(started.templateCalls)]
           loading == [p EXCEPT !.isLoadingTemplate = TRUE]
       IN  [practice |-> IF returned.state = "pending"
                         THEN loading
                         ELSE LoadChain(loading, returned),
            loader |-> started]

\* the renders and effects after the state cells were set to p
Rerender(p) ==
  LET after == IF p.selectedTemplatePath # practice.selectedTemplatePath
                  \/ p.manifest # practice.manifest
               THEN TemplateEffect(p, loader)
               ELSE [practice |-> p, loader |-> loader]
  IN  /\ practice' = after.practice
      /\ loader' = after.loader
      /\ template' = after.practice.template

canvasOfPractice == <<strokes, activeStroke, strokeEvaluations, evaluation,
                      pointerState, delivered, evaluateStrokeCalls, mounted,
                      arrived, frame, drawCalls, call, pointerEvents>>

InitPractice ==
  /\ IdleCanvas
  /\ call = NoCall
  /\ loader = loadManifest(ModuleLoaded)
  /\ practice = Mounted
  /\ pointerEvents = NoHook

\* the callbacks of the manifest effect
ManifestFetched ==
  /\ practice.present
  /\ ManifestFetchPending(loader)
  /\ \E outcome \in Outcomes :
       LET ended == manifestFetchEnds(loader, outcome)
           selected == [practice EXCEPT
                          !.manifest = "loaded",
                          !.selectedAlphabet = Manifest[1].id,
                          !.selectedTemplatePath = Manifest[1].letters[1]]
           after == IF outcome = "ok"
                    THEN TemplateEffect(selected, ended)
                    ELSE [practice |-> practice, loader |-> ended]
       IN  /\ practice' = after.practice
           /\ loader' = after.loader
           /\ template' = after.practice.template
  /\ lastOp' = "manifest"
  /\ UNCHANGED canvasOfPractice

handleAlphabetChange ==
  /\ practice.present
  /\ practice.manifest = "loaded"
  /\ Len(loader.templateCalls) < MaxLoads
  /\ \E k \in 1..Len(Manifest) :
       /\ Manifest[k].id # practice.selectedAlphabet
       /\ Rerender([practice EXCEPT
                      !.selectedAlphabet = Manifest[k].id,
                      !.selectedTemplatePath = Manifest[k].letters[1]])
  /\ lastOp' = "alphabet"
  /\ UNCHANGED canvasOfPractice

handleLetterClick ==
  /\ practice.present
  /\ practice.manifest = "loaded"
  /\ Len(loader.templateCalls) < MaxLoads
  /\ \E k \in 1..Len(AlphabetOf(practice.selectedAlphabet).letters) :
       LET templatePath == AlphabetOf(practice.selectedAlphabet).letters[k]
       IN  /\ templatePath # practice.selectedTemplatePath
           /\ Rerender([practice EXCEPT !.selectedTemplatePath = templatePath])
  /\ lastOp' = "letter"
  /\ UNCHANGED canvasOfPractice

\* a fetch of loadTemplate ends: the call resumes, its promise settles, and
\* the callbacks chained on it run
TemplateLoadEnds ==
  /\ practice.present
  /\ \E i \in PendingTemplateCalls(loader), outcome \in Outcomes :
       LET resumed == loadTemplateResumes(loader, i, outcome)
           after == LoadChain(practice, resumed.templateCalls[i])
       IN  /\ loader' = resumed
           /\ practice' = after
           /\ template' = after.template
  /\ lastOp' = "template"
  /\ UNCHANGED canvasOfPractice

NextPractice ==
  \/ ManifestFetched
  \/ handleAlphabetChange
  \/ handleLetterClick
  \/ TemplateLoadEnds

SpecPractice == InitPractice /\ [][NextPractice]_vars

\* ---- usePointerEvents, the pointer-event branch -------------------------------
\* The hook of App after its effects have run on a browser with pointer
\* events: let pointerId = null (recorded as 0), isActive false, the four
\* listeners attached.  `down` is the set of pointers that are pressed,
\* `delivered` the callbacks of App called so far, `events` their number.
HookMounted ==
  [present |-> TRUE, pointerId |-> 0, isActive |-> FALSE, down |-> {},
   delivered |-> <<>>, events |-> 0]

Delivered(h, callback, id) ==
  Append(h.delivered, [callback |-> callback, pointerId |-> id])

\* handlePointerDown of the hook, with onStart of App
hookPointerDown(h, id) ==
  [h EXCEPT !.pointerId = id,
            !.isActive = TRUE,
            !.delivered = Delivered(h, "onStart", id),
            !.down = @ \cup {id},
            !.events = @ + 1]

\* handlePointerMove of the hook, with onMove of App
hookPointerMove(h, id) ==
  IF h.pointerId # 0 /\ id = h.pointerId
  THEN [h EXCEPT !.delivered = Delivered(h, "onMove", id), !.events = @ + 1]
  ELSE [h EXCEPT !.events = @ + 1]

\* endInteraction, the listener of pointerup and pointercancel, with onEnd of
\* App
endInteraction(h, id) ==
  IF h.pointerId # 0 /\ id = h.pointerId
  THEN [h EXCEPT !.delivered = Delivered(h, "onEnd", id),
                 !.isActive = FALSE,
                 !.pointerId = 0,
                 !.down = @ \ {id},
                 !.events = @ + 1]
  ELSE [h EXCEPT !.down = @ \ {id}, !.events = @ + 1]

hookSession == <<template, strokes, activeStroke, strokeEvaluations, evaluation,
                 pointerState, delivered, evaluateStrokeCalls, mounted, arrived,
                 frame, drawCalls, call, loader, practice>>

InitPointerEvents ==
  /\ IdleCanvas
  /\ call = NoCall
  /\ loader = ModuleLoaded
  /\ practice = NoPractice
  /\ pointerEvents = HookMounted

\* a pointer that is up is pressed on the node
HookPointerDown ==
  /\ pointerEvents.present
  /\ pointerEvents.events < MaxEvents
  /\ \E id \in PointerIds \ pointerEvents.down :
       pointerEvents' = hookPointerDown(pointerEvents, id)
  /\ lastOp' = "pointerdown"
  /\ UNCHANGED hookSession

\* a pointer moves over the node, pressed or not
HookPointerMove ==
  /\ pointerEvents.present
  /\ pointerEvents.events < MaxEvents
  /\ \E id \in PointerIds :
       pointerEvents' = hookPointerMove(pointerEvents, id)
  /\ lastOp' = "pointermove"
  /\ UNCHANGED hookSession

\* a pressed pointer is released or cancelled
HookPointerEnd ==
  /\ pointerEvents.present
  /\ pointerEvents.events < MaxEvents
  /\ \E id \in pointerEvents.down :
       pointerEvents' = endInteraction(pointerEvents, id)
  /\ \E type \in {"pointerup", "pointercancel"} : lastOp' = type
  /\ UNCHANGED hookSession

NextPointerEvents ==
  \/ HookPointerDown
  \/ HookPointerMove
  \/ HookPointerEnd

SpecPointerEvents == InitPointerEvents /\ [][NextPointerEvents]_vars

\* ---- properties -----------------------------------------------------------
PointerOps == {"pointerdown", "pointermove", "pointerup", "pointercancel"}

\* is e2 the stroke e1, possibly with one more point at its end?
SameOrExtended(e1, e2) ==
  \/ e2 = e1
  \/ /\ IsStroke(e1)
     /\ IsStroke(e2)
     /\ Len(e2) = Len(e1) + 1
     /\ SubSeq(e2, 1, Len(e1)) = e1

\* C1: undo() while a stroke is in progress has no effect on that stroke: it
\* stays in the stroke list with the points collected so far.
C1_UndoKeepsStrokeInProgress ==
  [][(/\ lastOp' = "undo"
      /\ pointerState # NoPointer
      /\ pointerState.strokeIndex < Len(strokes))
     => (/\ Len(strokes') > pointerState.strokeIndex
         /\ strokes'[pointerState.strokeIndex + 1] = strokes[pointerState.strokeIndex + 1])]_vars

\* C2: after reset() the stroke list is empty and stays empty until the next
\* pointer-down: the event that follows a reset, unless it is a pointer-down,
\* leaves the list empty.
C2_EmptyAfterResetUntilPointerDown ==
  [][(/\ lastOp = "reset"
      /\ strokes = <<>>
      /\ lastOp' # "pointerdown")
     => strokes' = <<>>]_vars

\* C3: while a pointer is captured, an event of any other pointer identity
\* changes neither the stroke list, nor the captured identity, nor the
\* active stroke.
C3_OtherPointersIgnored ==
  [][\A id \in PointerIds :
       (/\ pointerState # NoPointer
        /\ id # pointerState.id
        /\ \/ \E client \in ClientPoints : PointerDown(id, client)
           \/ \E client \in ClientPoints : PointerMove(id, client)
           \/ PointerUp(id)
           \/ PointerCancel(id))
       => UNCHANGED <<strokes, pointerState, activeStroke>>]_vars

\* C4: replacing the template empties the stroke list, leaves no active
\* stroke, and makes no evaluateStroke call on the strokes that were drawn
\* against the previous template.
C4_TemplateSwitchResets ==
  [][(lastOp' = "template" /\ template' # template)
     => (/\ strokes' = <<>>
         /\ activeStroke' = NoStroke
         /\ evaluateStrokeCalls' = {})]_vars

\* C5: with no pointer captured and n >= 1 strokes in the list, undo()
\* leaves exactly the first n-1 strokes, unchanged and in the same order.
C5_UndoRemovesLastStroke ==
  [][(/\ lastOp' = "undo"
      /\ pointerState = NoPointer
      /\ Len(strokes) >= 1)
     => (/\ Len(strokes') = Len(strokes) - 1
         /\ \A i \in 1..Len(strokes') : strokes'[i] = strokes[i])]_vars

C5_Witness ==
  /\ lastOp = "undo"
  /\ pointerState = NoPointer
  /\ Len(strokes) >= 1
  /\ IsStroke(strokes[1])

\* the session state the claims call empty
EmptySession ==
  /\ strokes = <<>>
  /\ activeStroke = NoStroke
  /\ strokeEvaluations = <<>>
  /\ evaluation = NullSummary

\* C6: undo() on an empty list changes nothing; reset() on an empty session
\* leaves it empty; undo() after exactly one committed stroke gives the empty
\* session (no stroke, no active stroke, no stroke evaluation, no summary).
C6_UndoResetOnEmpty ==
  [][/\ (lastOp' = "undo" /\ strokes = <<>>)
        => UNCHANGED <<strokes, activeStroke, strokeEvaluations, evaluation,
                       pointerState, delivered, mounted>>
     /\ (lastOp' = "reset" /\ EmptySession /\ pointerState = NoPointer)
        => (EmptySession' /\ pointerState' = NoPointer /\ mounted')
     /\ (lastOp' = "undo" /\ Len(strokes) = 1 /\ pointerState = NoPointer)
        => (EmptySession' /\ pointerState' = NoPointer /\ mounted')]_vars

C6_Witness ==
  /\ lastOp = "undo"
  /\ EmptySession
  /\ pointerState = NoPointer
  /\ template # NoTemplate
  /\ delivered = NullSummary

\* C7: no step reorders the stroke list (a position that exists before and
\* after a step holds the same stroke, at most extended by one point), and
\* every evaluateStroke call pairs stroke index i with reference stroke i.
C7_IndexAlignment ==
  [][/\ \A i \in 1..Min(Len(strokes), Len(strokes')) :
          \/ SameOrExtended(strokes[i], strokes'[i])
          \/ (strokes[i] = hole /\ strokes'[i] = undefinedEntry)
     /\ \A c \in evaluateStrokeCalls' : c.referenceIndex = c.strokeIndex]_vars

C7_Witness ==
  /\ Len(strokes) = 2
  /\ template = "B"
  /\ strokes[1] # strokes[2]
  /\ \E c \in evaluateStrokeCalls : c.strokeIndex = 1 /\ c.referenceIndex = 1

\* C8: while a pointer is captured, the stroke at its stroke index consists
\* of exactly the points of the pointer-down and of the pointer-move events
\* of that pointer, in arrival order.
C8_StrokeIsArrivedPoints ==
  (mounted /\ pointerState # NoPointer)
  => (/\ pointerState.strokeIndex < Len(strokes)
      /\ strokes[pointerState.strokeIndex + 1] = arrived)

\* C9: pointer-up and pointer-cancel of the captured pointer remove nothing
\* from the stroke list (a stroke of 1 point included), end the active
\* stroke and the capture, and change nothing else, so both give the same
\* state.
C9_UpAndCancelCommit ==
  [][(lastOp' \in {"pointerup", "pointercancel"})
     => (/\ pointerState # NoPointer
         /\ strokes' = strokes
         /\ pointerState' = NoPointer
         /\ activeStroke' = NoStroke
         /\ UNCHANGED <<template, strokeEvaluations, evaluation, delivered, mounted>>)]_vars

C9_Witness ==
  /\ lastOp = "pointercancel"
  /\ pointerState = NoPointer
  /\ activeStroke = NoStroke
  /\ Len(strokes) >= 1
  /\ IsStroke(strokes[Len(strokes)])
  /\ Len(strokes[Len(strokes)]) = 1

\* C10: a pointer event changes no stroke other than the one in progress:
\* pointer-down and pointer-up keep every stroke of the list, pointer-move
\* keeps every stroke but the one at the captured index, and pointer-down
\* captures the index of the new stroke, never that of an existing one.
C10_CommittedStrokesImmutable ==
  [][(lastOp' \in PointerOps)
     => (/\ \A i \in 1..Len(strokes) :
              (/\ IsStroke(strokes[i])
               /\ (lastOp' = "pointermove" => i # pointerState.strokeIndex + 1))
              => (i <= Len(strokes') /\ strokes'[i] = strokes[i])
         /\ (lastOp' = "pointerdown") => (pointerState'.strokeIndex = Len(strokes)))]_vars

C10_Witness ==
  /\ lastOp = "pointermove"
  /\ pointerState # NoPointer
  /\ pointerState.strokeIndex = 1
  /\ Len(strokes) = 2
  /\ IsStroke(strokes[1])
  /\ Len(strokes[2]) = 2

\* C11: while a template is loaded, a change of the stroke list (pointer-down,
\* accepted pointer-move, undo) that leaves strokes in the list is followed by
\* a notification, so that the summary delivered last is the evaluateDrawing
\* result of the current strokes against the current scaled reference
\* strokes.
C11_DeliveredIsCurrent ==
  [][(/\ lastOp' \in {"pointerdown", "pointermove", "undo"}
      /\ template' # NoTemplate
      /\ strokes' # <<>>)
     => delivered' = evaluateDrawing(strokes', scaleTemplate(template').strokes)]_vars

Returned == call.fn # "none" /\ call.returned

\* C13: evaluateStroke with a stroke of fewer than 2 points returns coverage
\* 0, averageDeviation +infinity and no segments, for every reference path
\* and threshold.
C13_ShortStrokeSentinel ==
  (Returned /\ call.fn = "evaluateStroke" /\ Len(call.stroke) < 2)
  => (/\ call.result.coverage = Ratio(0, 1)
      /\ call.result.averageDeviation = PositiveInfinity
      /\ call.result.segments = <<>>)

C13_Witness ==
  /\ Returned
  /\ call.fn = "evaluateStroke"
  /\ Len(call.stroke) = 1
  /\ call.reference = << <<0, 0>>, <<100, 0>> >>
  /\ call.result = SentinelStrokeEvaluation

\* C14: evaluateStroke with a reference path of fewer than 2 points returns
\* the sentinel evaluation, whatever the stroke.
C14_ShortReferenceSentinel ==
  (Returned /\ call.fn = "evaluateStroke" /\ Len(call.reference) < 2)
  => call.result = SentinelStrokeEvaluation

\* the mean, over all resampled stroke points, of the distance to the
\* nearest resampled reference point
MeanDeviation(stroke, reference) ==
  LET sampledStroke == resamplePath(stroke, StrokeSamples)
      sampledReference == resamplePath(reference, ReferenceSamples)
      nearest == [i \in 1..Len(sampledStroke) |->
                    MinDist(sampledStroke[i], sampledReference, 1, Len(sampledReference))]
  IN Ratio(SumOf(nearest, 1, Len(nearest)), GridUnit * Len(sampledStroke))

Scored == ~StrokeTooShort(call.stroke) /\ ~ReferenceMissing(call.reference)

\* C15: the averageDeviation of a scored pair is the mean over all resampled
\* stroke points of the distance to the nearest resampled reference point;
\* the stroke (50,0),(50,0), at distance 50 from every point of the reference
\* (0,0),(0,0), gets coverage 0 and averageDeviation 50 at threshold 5.
C15_DeviationIsMeanOverAllPoints ==
  (Returned /\ call.fn = "evaluateStroke" /\ Scored)
  => (/\ call.result.averageDeviation = MeanDeviation(call.stroke, call.reference)
      /\ (/\ call.stroke = << <<50, 0>>, <<50, 0>> >>
          /\ call.reference = << <<0, 0>>, <<0, 0>> >>
          /\ call.threshold = 5)
         => (/\ call.result.coverage = Ratio(0, 1)
             /\ call.result.averageDeviation = Ratio(50, 1)))

\* the share of the resampled reference points that have a resampled stroke
\* point within the threshold
CoveredShare(stroke, reference, threshold) ==
  LET sampledStroke == resamplePath(stroke, StrokeSamples)
      sampledReference == resamplePath(reference, ReferenceSamples)
      near == {j \in 1..Len(sampledReference) :
                 \E i \in 1..Len(sampledStroke) :
                    distance(sampledReference[j], sampledStroke[i]) <= threshold * GridUnit}
  IN Ratio(Cardinality(near), Len(sampledReference))

ExactTrace ==
  /\ call.stroke = << <<0, 0>>, <<100, 0>> >>
  /\ call.reference = << <<0, 0>>, <<100, 0>> >>
  /\ call.threshold = 5

\* C16 as claimed: coverage is the share of covered reference points, and the
\* exact trace of the line (0,0)-(100,0) gets coverage 1 and averageDeviation
\* 0.
C16_ExactTraceHasNoDeviation ==
  (Returned /\ call.fn = "evaluateStroke" /\ Scored)
  => (/\ call.result.coverage = CoveredShare(call.stroke, call.reference, call.threshold)
      /\ ExactTrace => (/\ call.result.coverage = Ratio(1, 1)
                        /\ call.result.averageDeviation = Ratio(0, 1)))

\* C16: coverage is the number of resampled reference points whose nearest
\* resampled stroke point is within the threshold, divided by the number of
\* resampled reference points; the exact trace of the line (0,0)-(100,0)
\* gets coverage 1 and an averageDeviation that is positive and at most half
\* the spacing 100/159 of the resampled reference points.
C16_CoverageIsCoveredShare ==
  (Returned /\ call.fn = "evaluateStroke" /\ Scored)
  => (/\ call.result.coverage = CoveredShare(call.stroke, call.reference, call.threshold)
      /\ ExactTrace => (/\ call.result.coverage = Ratio(1, 1)
                        /\ call.result.averageDeviation.num > 0
                        /\ NumLeq(call.result.averageDeviation,
                                  Ratio(50, ReferenceSamples - 1))))

C16_Witness ==
  /\ Returned
  /\ call.fn = "evaluateStroke"
  /\ ExactTrace
  /\ call.result.coverage = Ratio(1, 1)
  /\ Len(call.result.segments) = StrokeSamples - 1

\* C17: coverage lies in [0,1], averageDeviation is >= 0 or +infinity, and a
\* scored pair has one segment less than resampled stroke points.
C17_OutputGuarantee ==
  (Returned /\ call.fn = "evaluateStroke")
  => (/\ NumLeq(Ratio(0, 1), call.result.coverage)
      /\ NumLeq(call.result.coverage, Ratio(1, 1))
      /\ IsFinite(call.result.coverage)
      /\ \/ call.result.averageDeviation = PositiveInfinity
         \/ IsFinite(call.result.averageDeviation)
            /\ NumLeq(Ratio(0, 1), call.result.averageDeviation)
      /\ Scored => Len(call.result.segments)
                     = Len(resamplePath(call.stroke, StrokeSamples)) - 1)

C17_Witness ==
  /\ Returned
  /\ call.fn = "evaluateStroke"
  /\ Scored
  /\ Len(call.result.segments) = StrokeSamples - 1
  /\ call.result.coverage = Ratio(11, 20)
  /\ call.result.averageDeviation.num > 0

\* ---- evaluateDrawing -------------------------------------------------------
DrawingReturned == call.fn = "evaluateDrawing" /\ call.returned

\* C18: evaluateDrawing with an empty stroke list or an empty reference list
\* returns score 0, coverage 0, averageDeviation +infinity and the prompt
\* message.
C18_EmptyListGivesPromptSummary ==
  (DrawingReturned /\ (Len(call.strokes) = 0 \/ Len(call.template) = 0))
  => (/\ call.result.score = Ratio(0, 1)
      /\ call.result.coverage = Ratio(0, 1)
      /\ call.result.averageDeviation = PositiveInfinity
      /\ call.result.message = PromptMessage)

C18_Witness ==
  /\ DrawingReturned
  /\ Len(call.strokes) = 2
  /\ Len(call.template) = 0
  /\ call.result.message = PromptMessage

\* evaluations[1].field + ... + evaluations[k].field
RECURSIVE TotalOf(_, _, _)
TotalOf(evaluations, field, k) ==
  IF k = 0 THEN Ratio(0, 1)
  ELSE NumAdd(TotalOf(evaluations, field, k - 1),
              IF field = "coverage" THEN evaluations[k].coverage
              ELSE evaluations[k].averageDeviation)

\* the per-pair results that the summary of the call in progress averages
PairResults ==
  [i \in 1..Min(Len(call.strokes), Len(call.template)) |->
     StrokeEvaluationOf(call.strokes[i], call.template[i].path, call.threshold)]

\* C19: for non-empty lists the summary's coverage and averageDeviation are
\* the averages of the evaluateStroke results of the first n = min(number of
\* strokes, number of reference strokes) index-aligned pairs, and the result
\* is that of the call on the first n strokes and first n reference strokes.
C19_FirstPairsAveraged ==
  (DrawingReturned /\ Len(call.strokes) > 0 /\ Len(call.template) > 0)
  => LET n == Min(Len(call.strokes), Len(call.template))
     IN /\ call.result.coverage = NumOver(TotalOf(PairResults, "coverage", n), n)
        /\ call.result.averageDeviation
             = NumOver(TotalOf(PairResults, "averageDeviation", n), n)
        /\ call.result = EvaluationSummaryOf(SubSeq(call.strokes, 1, n),
                                             SubSeq(call.template, 1, n), call.threshold)

C19_Witness ==
  /\ DrawingReturned
  /\ Len(call.strokes) = 2
  /\ Len(call.template) = 3
  /\ call.strokes[1] # call.strokes[2]
  /\ IsFinite(call.result.averageDeviation)
  /\ call.result.coverage = Ratio(1, 2)

\* coverage * 100 - normalizedDeviation * 35 of the returned summary, with
\* normalizedDeviation = max(averageDeviation / threshold, 1/100)
RawScore ==
  NumAdd(NumTimes(call.result.coverage, 100),
         NumNeg(NumTimes(NumMax(NumOver(call.result.averageDeviation, call.threshold),
                                Ratio(1, 100)), 35)))

\* C20 as claimed: the score is RawScore clamped to [0,100].
C20_ScoreIsClampedRawScore ==
  (DrawingReturned /\ Len(call.strokes) > 0 /\ Len(call.template) > 0)
  => call.result.score = NumMax(Ratio(0, 1), NumMin(Ratio(100, 1), RawScore))

\* C20: the score is RawScore rounded to the nearest integer (halves
\* upwards) and then clamped to [0,100]: it is 0 when RawScore < 1/2, 100
\* when RawScore >= 99 1/2, and otherwise the integer s with
\* s - 1/2 <= RawScore < s + 1/2; so it is an integer of [0,100] for every
\* input, an infinite average deviation included.
C20_ScoreIsRoundedClampedRawScore ==
  DrawingReturned
  => LET s == call.result.score
         half == Ratio(1, 2)
     IN /\ s.den = 1
        /\ s.num \in 0..100
        /\ (Len(call.strokes) > 0 /\ Len(call.template) > 0)
           => (/\ ~NumLeq(half, RawScore) => s.num = 0
               /\ NumLeq(Ratio(199, 2), RawScore) => s.num = 100
               /\ (NumLeq(half, RawScore) /\ ~NumLeq(Ratio(199, 2), RawScore))
                  => (/\ NumLeq(NumAdd(s, NumNeg(half)), RawScore)
                      /\ ~NumLeq(NumAdd(s, half), RawScore)))

C20_Witness ==
  /\ DrawingReturned
  /\ Len(call.strokes) > 0
  /\ Len(call.template) > 0
  /\ IsFinite(RawScore)
  /\ RawScore.den # 1
  /\ call.result.score.num \in 1..99

\* ---- resamplePath ---------------------------------------------------------
Resampled == call.fn = "resamplePath" /\ call.returned

\* the length of the whole path, in pixels
PathLength(points) == LengthUpTo(points, Len(points))

\* C21: resamplePath([], n) returns []; a path of positive total length
\* gives exactly n points; a path whose points are all identical is returned
\* as it is, point by point (every coordinate is the number it was).
C21_ResampleSizes ==
  Resampled =>
    /\ Len(call.points) = 0 => call.result = <<>>
    /\ (Len(call.points) > 0 /\ PathLength(call.points) > 0)
         => Len(call.result) = call.sampleCount
    /\ (\A i \in 1..Len(call.points) : call.points[i] = call.points[1])
         => /\ Len(call.result) = Len(call.points)
            /\ \A i \in 1..Len(call.points) : call.result[i] = ToGrid(call.points[i])

\* a path of two identical points has been resampled with sampleCount 90
C21_Witness ==
  /\ Resampled
  /\ Len(call.points) = 2
  /\ call.points[1] = call.points[2]
  /\ call.sampleCount = StrokeSamples
  /\ Len(call.result) = 2

ScaledReturned == call.fn = "evaluateStroke, scaled" /\ call.returned

\* C23: multiplying every stroke point, every reference point and the
\* threshold by the same factor k > 0 leaves the coverage and the hit/miss
\* colour of every segment as they were and multiplies averageDeviation (and
\* the segment end points) by k.
C23_ScalingInvariance ==
  ScaledReturned =>
    LET k == call.factor
        original == call.result
        scaled == call.scaledResult
    IN /\ scaled.coverage = original.coverage
       /\ scaled.averageDeviation = NumTimes(original.averageDeviation, k)
       /\ Len(scaled.segments) = Len(original.segments)
       /\ \A i \in 1..Len(original.segments) :
            /\ scaled.segments[i].color = original.segments[i].color
            /\ scaled.segments[i].start = <<k * original.segments[i].start[1],
                                            k * original.segments[i].start[2]>>
            /\ scaled.segments[i].end = <<k * original.segments[i].end[1],
                                          k * original.segments[i].end[2]>>

\* a scored pair with part of the reference covered and a deviation that is
\* neither 0 nor infinite, scaled by 3
C23_Witness ==
  /\ ScaledReturned
  /\ call.factor = 3
  /\ call.result.coverage \notin {Ratio(0, 1), Ratio(1, 1)}
  /\ IsFinite(call.result.averageDeviation)
  /\ call.result.averageDeviation # Ratio(0, 1)
  /\ Len(call.result.segments) = StrokeSamples - 1

\* ---- the canvas without a template ------------------------------------------
\* C24: while the template is null no handler fails, no stroke is evaluated,
\* the stroke evaluations (whose segments are what draw renders) stay empty,
\* and the collaborator is handed nothing but null.
C24_NoTemplateTolerated ==
  [][template' = NoTemplate =>
       /\ mounted'
       /\ evaluateStrokeCalls' = {}
       /\ strokeEvaluations' = <<>>
       /\ evaluation' = NullSummary
       /\ delivered' \in {delivered, NullSummary}]_vars

\* without a template a stroke of two points has been drawn and released
C24_Witness ==
  /\ template = NoTemplate
  /\ lastOp = "pointerup"
  /\ Len(strokes) = 1
  /\ IsStroke(strokes[1])
  /\ Len(strokes[1]) = 2
  /\ strokeEvaluations = <<>>
  /\ delivered = NullSummary

\* ---- rendering ---------------------------------------------------------------
\* C25: with a template, every stroke of two or more points that has been
\* released has hit/miss segments among those draw renders, also a stroke
\* drawn beyond the number of reference strokes.
C25_CommittedStrokesHaveSegments ==
  (mounted /\ template # NoTemplate /\ pointerState = NoPointer) =>
    \A i \in 1..Len(strokes) :
      (IsStroke(strokes[i]) /\ Len(strokes[i]) >= 2)
        => i \in drawEvaluationSegments(strokeEvaluations)

\* ---- short strokes in a drawing ---------------------------------------------
\* the coverage that the pairs 1..k with a stroke of two or more points add up to
RECURSIVE CoverageOfLongStrokes(_)
CoverageOfLongStrokes(k) ==
  IF k = 0 THEN Ratio(0, 1)
  ELSE NumAdd(CoverageOfLongStrokes(k - 1),
              IF Len(call.strokes[k]) < 2 THEN Ratio(0, 1) ELSE PairResults[k].coverage)

\* C26: a stroke of fewer than 2 points among the pairs that evaluateDrawing
\* scores gets coverage 0, an infinite deviation and no segments; the summary
\* then has averageDeviation +infinity and score 0, and its coverage is what
\* the strokes of 2 or more points add up to, divided by the number of pairs.
C26_ShortStrokeInDrawing ==
  (DrawingReturned /\ Len(call.strokes) > 0 /\ Len(call.template) > 0)
  => LET n == Min(Len(call.strokes), Len(call.template))
         short == {i \in 1..n : Len(call.strokes[i]) < 2}
     IN /\ \A i \in short : /\ PairResults[i].coverage = Ratio(0, 1)
                             /\ PairResults[i].averageDeviation = PositiveInfinity
                             /\ PairResults[i].segments = <<>>
        /\ short # {}
           => /\ call.result.averageDeviation = PositiveInfinity
              /\ call.result.score = Ratio(0, 1)
              /\ call.result.coverage = NumOver(CoverageOfLongStrokes(n), n)

\* the exact trace of the line followed by a stroke of one point: half the
\* coverage, score 0
C26_Witness ==
  /\ DrawingReturned
  /\ call.strokes = <<LineStroke.path, << <<0, 0>> >> >>
  /\ call.template = <<LineStroke, DotStroke>>
  /\ call.result.coverage = Ratio(1, 2)
  /\ call.result.score = Ratio(0, 1)
  /\ call.result.averageDeviation = PositiveInfinity

\* ---- resampling by arc length -----------------------------------------------
\* does the point q (grid units) lie on the polyline points at the arc
\* length s (grid units) from its start?
OnPathAt(points, q, s) ==
  \E j \in 1..(Len(points) - 1) :
    LET from == LengthUpTo(points, j)
        to == LengthUpTo(points, j + 1)
    IN /\ from * GridUnit <= s
       /\ s <= to * GridUnit
       /\ IF to = from
          THEN q = ToGrid(points[j])
          ELSE \A c \in 1..2 :
                 (q[c] - points[j][c] * GridUnit) * (to - from)
                   = (points[j + 1][c] - points[j][c]) * (s - from * GridUnit)

\* C27: for a path of total length L > 0, sample i = 0..n-1 of resamplePath
\* lies on the path at arc length L*i/(n-1); the first sample is the first
\* point and the last sample the last point of the path, also when the path
\* has repeated consecutive points.
C27_SamplesByArcLength ==
  (Resampled /\ Len(call.points) > 0 /\ PathLength(call.points) > 0)
  => LET n == call.sampleCount
         L == PathLength(call.points)
     IN /\ Len(call.result) = n
        /\ \A i \in 0..(n - 1) :
             OnPathAt(call.points, call.result[i + 1],
                      (L * i * GridUnit) \div (n - 1))
        /\ call.result[1] = ToGrid(call.points[1])
        /\ call.result[n] = ToGrid(call.points[Len(call.points)])

\* a path with a segment of 100 and a segment of 50, sampled 4 times: the
\* samples are 50 apart along the path, not one per input point
C27_Witness ==
  /\ Resampled
  /\ call.points = << <<0, 0>>, <<100, 0>>, <<50, 0>> >>
  /\ call.sampleCount = 4
  /\ call.result = <<ToGrid(<<0, 0>>), ToGrid(<<50, 0>>), ToGrid(<<100, 0>>),
                     ToGrid(<<50, 0>>)>>

\* ---- smoothing ---------------------------------------------------------------
Smoothed == call.fn = "smoothStroke" /\ call.returned

\* C28: smoothStroke returns a stroke of fewer than 2 points as it is; for
\* n >= 2 points it returns 16 * (n - 1) + 1 points, the first and the last
\* of which are the first and the last stroke point, with stroke point k
\* (k = 0..n-1) at index 16 * k.
C28_SplineThroughStrokePoints ==
  Smoothed =>
    LET n == Len(call.stroke)
    IN IF n < 2
       THEN /\ Len(call.result) = n
            /\ \A k \in 1..n : call.result[k] = ToSplineUnit(call.stroke[k])
       ELSE /\ Len(call.result) = 16 * (n - 1) + 1
            /\ call.result[1] = ToSplineUnit(call.stroke[1])
            /\ call.result[Len(call.result)] = ToSplineUnit(call.stroke[n])
            /\ \A k \in 0..(n - 1) :
                 call.result[16 * k + 1] = ToSplineUnit(call.stroke[k + 1])

\* a stroke of three points that are not on a line has been smoothed to 33
\* points, some of which are off the segments between the stroke points
C28_Witness ==
  /\ Smoothed
  /\ call.stroke = << <<0, 0>>, <<100, 0>>, <<50, 80>> >>
  /\ Len(call.result) = 33
  /\ \E k \in 1..16 : call.result[k][2] # 0

\* ---- redraw -----------------------------------------------------------------
\* C29: draw is called only by the animation-frame callback, never by a
\* handler; at most one frame request is pending at any time, so a frame
\* makes at most one draw call however many pointer events came before it;
\* once the component is unmounted no request is pending and no draw call
\* is made.
C29_OneDrawPerFrame ==
  [][/\ frame'.pending <= 1
     /\ drawCalls' <= 1
     /\ drawCalls' > 0 => lastOp' = "frame"
     /\ ~mounted' => frame'.pending = 0
     /\ ~mounted => drawCalls' = 0]_vars

\* a frame has drawn once after a pointer-down and two pointer-move events
C29_Witness ==
  /\ lastOp = "frame"
  /\ drawCalls = 1
  /\ mounted
  /\ Len(arrived) = 3
  /\ frame = [current |-> "live", pending |-> 1]

\* ---- entries of the stroke list ----------------------------------------------
\* C30: in every reachable state each slot of the stroke list holds a stroke
\* of at least one point, the stroke index of a captured pointer is below
\* the length of the list, and no re-evaluation has failed.
C30_NoMissingEntries ==
  /\ \A i \in 1..Len(strokes) : IsStroke(strokes[i]) /\ Len(strokes[i]) >= 1
  /\ pointerState # NoPointer => pointerState.strokeIndex < Len(strokes)
  /\ mounted

\* ---- the two records of the stroke in progress -------------------------------
\* C31: in every reachable state of a mounted canvas the active stroke is
\* present exactly when a pointer is captured.
C31_ActiveStrokeIffCaptured ==
  mounted => (activeStroke # NoStroke <=> pointerState # NoPointer)

\* ---- the template shown after overlapping loads -------------------------------
\* C32: once no template load is in flight, the template passed to the canvas
\* is the template of the selected path (or none, when its load failed), never
\* the template of an earlier selection.
C32_LatestSelectionShown ==
  (practice.present /\ PendingTemplateCalls(loader) = {}
     /\ practice.selectedTemplatePath # "null")
    => template \in {TemplateAt(practice.selectedTemplatePath), NoTemplate}

\* ---- the loading flag ---------------------------------------------------------
\* C33: isLoadingTemplate is true exactly when a template load is in flight,
\* and the canvas has been reset once for every load that has settled.
C33_LoadingFlagTracksLoads ==
  practice.present =>
    /\ practice.isLoadingTemplate <=> PendingTemplateCalls(loader) # {}
    /\ practice.resets =
         Len(loader.templateCalls) - Cardinality(PendingTemplateCalls(loader))

\* ---- the cache of loadTemplate ------------------------------------------------
\* the calls of loadTemplate for a URL that have returned a template
Succeeded(l, url) ==
  {i \in 1..Len(l.templateCalls) :
     l.templateCalls[i].url = url /\ l.templateCalls[i].state = "fulfilled"}

\* the cache holds at most one entry for a URL, one exactly when a load of the
\* URL has succeeded, and the entry is the template of the URL
CacheOfSuccesses ==
  \A url \in TemplateUrls :
    LET entries == {e \in loader.cache : e.url = url}
    IN  /\ Cardinality(entries) <= 1
        /\ entries # {} <=> Succeeded(loader, url) # {}
        /\ \A e \in entries :
             /\ e.data.template = TemplateAt(url)
             /\ \E i \in Succeeded(loader, url) :
                  loader.templateCalls[i].value = e.data

\* a step that calls loadTemplate: after a successful load of the URL the
\* call returns a template that a successful load returned, without a fetch;
\* otherwise (no load yet, only failed ones, or only pending ones) it fetches
CallUsesCache ==
  Len(loader'.templateCalls) = Len(loader.templateCalls) + 1 =>
    LET made == loader'.templateCalls[Len(loader'.templateCalls)]
    IN  IF Succeeded(loader, made.url) # {}
        THEN /\ made.state = "fulfilled"
             /\ made.value.template = TemplateAt(made.url)
             /\ \E i \in Succeeded(loader, made.url) :
                  loader.templateCalls[i].value = made.value
             /\ loader'.templateFetches = loader.templateFetches
        ELSE /\ made.state = "pending"
             /\ loader'.templateFetches =
                  Append(loader.templateFetches, made.url)

\* a step in which a load fails: the call reports an error and the cache is
\* left as it was
FailureKeepsCache ==
  \A i \in PendingTemplateCalls(loader) :
    loader'.templateCalls[i].state = "rejected" =>
      /\ loader'.templateCalls[i].value = "error"
      /\ loader'.cache = loader.cache

\* C34: loadTemplate caches only successful loads: a call after a successful
\* load of the URL returns that template without a fetch, a failed load is
\* reported as an error and leaves the cache unchanged so that a later call
\* fetches again, and overlapping loads of one URL leave one cache entry.
C34_CacheOnlySuccesses ==
  /\ []CacheOfSuccesses
  /\ [][CallUsesCache /\ FailureKeepsCache]_vars

\* a load of A has failed, two later loads of A have overlapped and both
\* succeeded, and a call after them was answered from the cache
C34_Witness ==
  /\ Len(loader.templateCalls) = 4
  /\ \A i \in 1..4 : loader.templateCalls[i].url = "/templates/A.json"
  /\ loader.templateCalls[1].state = "rejected"
  /\ loader.templateFetches =
       <<"/templates/A.json", "/templates/A.json", "/templates/A.json">>
  /\ loader.templateCalls[2].state = "fulfilled"
  /\ loader.templateCalls[3].state = "fulfilled"
  /\ loader.templateCalls[4].fetch = 0
  /\ loader.templateCalls[4].value.template = "A"
  /\ Cardinality(loader.cache) = 1

\* ---- the manifest promise -----------------------------------------------------
\* a step after the manifest fetch has failed: no fetch is issued and the
\* failure stays
FailureIsKept ==
  (loader.manifestFetches # <<>> /\ loader.manifestFetches[1] = "rejected")
    => loader'.manifestFetches = loader.manifestFetches

\* C35: loadManifest issues at most one fetch, every call returns the outcome
\* of that fetch, and a failed fetch is never retried.
C35_OneManifestFetch ==
  /\ [](/\ Len(loader.manifestFetches) <= 1
        /\ \A i \in 1..Len(loader.manifestCalls) : loader.manifestCalls[i] = 1)
  /\ [][FailureIsKept]_vars

\* loadManifest was called before and after its fetch failed, and every call
\* has failed
C35_Witness ==
  /\ Len(loader.manifestCalls) = 4
  /\ lastOp = "loadManifest"
  /\ \A i \in 1..4 : ManifestCallOutcome(loader, i) = "rejected"

\* ---- interactions of usePointerEvents -----------------------------------------
\* the callbacks delivered form interactions: an onStart comes first or after
\* an onEnd, and an onMove or onEnd comes after an onStart or onMove of the
\* same pointer
Interactions(log) ==
  \A k \in 1..Len(log) :
    IF log[k].callback = "onStart"
    THEN k = 1 \/ log[k - 1].callback = "onEnd"
    ELSE /\ k > 1
         /\ log[k - 1].callback \in {"onStart", "onMove"}
         /\ log[k - 1].pointerId = log[k].pointerId

\* C36: isActive is true exactly when a pointer identity is captured, onMove
\* and onEnd are delivered only for the captured pointer between an onStart
\* and its onEnd, and every onStart is followed by one onEnd before the next
\* onStart.
C36_OneInteractionAtATime ==
  pointerEvents.present =>
    /\ pointerEvents.isActive <=> pointerEvents.pointerId # 0
    /\ Interactions(pointerEvents.delivered)
====
